---- MODULE Spec2Model ----
(***************************************************************************)
(* A model of the hue.rs client library: bridge discovery (mDNS with the   *)
(* nUPnP fallback), the raw mDNS-SD receive loop, the two response         *)
(* envelopes, the room resolution join and the event feed.                 *)
(*                                                                         *)
(* Each component has its own variables, its own initial predicate and its *)
(* own next-state relation; a component that is not running sits in its    *)
(* Idle state, where none of its actions is enabled.                       *)
(***************************************************************************)
EXTENDS Integers, Sequences, FiniteSets, TLC

VARIABLES
    \* discovery coordinator (src/src/disco.rs)
    disco_pc,        \* "idle" | "start" | "mdns" | "n_upnp" | "done"
    mdns_calls,      \* number of calls of discover_hue_bridge_m_dns
    n_upnp_requests, \* number of GET requests to discovery.meethue.com
    bridge,          \* result of discover_hue_bridge_m_dns, once returned
    n_upnp_response, \* what the discovery endpoint answered, once it has
    n_upnp_result,   \* result of discover_hue_bridge_n_upnp, once returned
    disco_result,    \* what discover_hue_bridge returns
    disco_log        \* the log lines written, in order

disco_vars == <<disco_pc, mdns_calls, n_upnp_requests, bridge, n_upnp_response,
                n_upnp_result, disco_result, disco_log>>

VARIABLES
    \* mDNS-SD browse query (src/src/disco/mdns.rs)
    mdns_pc,         \* "idle" | "bind" | "send" | "recv" | "done"
    now,             \* the clock, in seconds
    deadline,        \* the receive loop's deadline, once set
    queries_sent,    \* number of query datagrams sent to 224.0.0.251:5353
    datagram,        \* the datagram last received, if any
    origin_addr,     \* the address that datagram came from
    service_ip,      \* what validate_response made of that datagram
    mdns_result      \* what discover_mdns_sd returns

mdns_vars ==
    <<mdns_pc, now, deadline, queries_sent, datagram, origin_addr, service_ip, mdns_result>>

VARIABLES
    \* one call of validate_response (src/src/disco/mdns.rs)
    vr_pc,           \* "idle" | "call" | "returned"
    vr_bytes,        \* its dns_response_bytes, as parsed
    vr_service_name, \* its service_name
    vr_result        \* what it returns

validate_vars == <<vr_pc, vr_bytes, vr_service_name, vr_result>>

VARIABLES
    \* one response body put through its envelope (src/src/bridge.rs)
    env_pc,          \* "idle" | "legacy" | "v2" | "done"
    env_body,        \* the JSON body received
    env_result       \* what decoding it and calling get() yields

envelope_vars == <<env_pc, env_body, env_result>>

VARIABLES
    \* one call of Bridge::resolve_all_rooms (src/src/bridge.rs)
    rs_pc,           \* "idle" | "rooms" | "devices" | "lights" | "done"
    fetches,         \* the resource types requested from the bridge, in order
    rooms,           \* the rooms fetched
    indexed_devices, \* the devices fetched, by id
    indexed_lights,  \* the lights fetched, by id
    rs_result        \* what resolve_all_rooms returns

resolve_vars == <<rs_pc, fetches, rooms, indexed_devices, indexed_lights, rs_result>>

VARIABLES
    \* the event feed of Bridge::events (src/src/bridge.rs)
    feed_pc,         \* "idle" | "open" | "closed"
    consumed,        \* the items the event source has produced, in order
    yielded          \* the HueEvents the feed has yielded, in order

feed_vars == <<feed_pc, consumed, yielded>>

VARIABLES
    \* one message of the event source put through the feed's closure
    dec_pc,          \* "idle" | "message" | "done"
    msg_data,        \* the data of the message
    hue_event        \* what the closure returns for it

decode_vars == <<dec_pc, msg_data, hue_event>>

VARIABLES
    \* a CommandLight under construction (src/src/bridge.rs)
    cmd_pc,          \* "idle" | "build" | "serialized"
    command,         \* the CommandLight
    calls,           \* the builders called so far, in order
    payload          \* the serialized command

command_vars == <<cmd_pc, command, calls, payload>>

VARIABLES
    \* one fetch of a resource collection (src/src/bridge.rs)
    ft_pc,           \* "idle" | "fetch" | "done"
    ft_response,     \* what the GET yields
    ft_result        \* what get_all_* returns

fetch_vars == <<ft_pc, ft_response, ft_result>>

VARIABLES
    \* a bridge handle (src/src/bridge.rs)
    hd_kind,         \* "idle" | "unauth" | "auth" | "failed"
    application_key, \* the application_key of the Bridge, if it is one
    client_key,      \* the hue-application-key default header of the handle's client
    hd_ops,          \* the operations applied to the handle, in order
    hd_request       \* the hue-application-key header of the last request sent

handle_vars == <<hd_kind, application_key, client_key, hd_ops, hd_request>>

VARIABLES
    \* one call of resolve_all_rooms or resolve_all_zones on given responses
    \* (src/src/bridge.rs)
    jn_pc,           \* "idle" | "rooms" | "zones" | "done"
    jn_groups,       \* what the GET of the rooms, or of the zones, yields
    jn_devices,      \* what the GET of the devices yields (rooms only)
    jn_lights,       \* what the GET of the lights yields
    jn_result        \* what the call returns

join_vars == <<jn_pc, jn_groups, jn_devices, jn_lights, jn_result>>

vars ==
    <<disco_vars,
      mdns_vars,
      validate_vars,
      envelope_vars,
      resolve_vars,
      feed_vars,
      decode_vars,
      command_vars,
      fetch_vars,
      handle_vars,
      join_vars>>

\* The state of the components other than the one named.
non_disco_vars ==
    <<mdns_vars, validate_vars, envelope_vars, resolve_vars, feed_vars, decode_vars, command_vars, fetch_vars, handle_vars, join_vars>>
non_mdns_vars ==
    <<disco_vars, validate_vars, envelope_vars, resolve_vars, feed_vars, decode_vars, command_vars, fetch_vars, handle_vars, join_vars>>
non_validate_vars ==
    <<disco_vars, mdns_vars, envelope_vars, resolve_vars, feed_vars, decode_vars, command_vars, fetch_vars, handle_vars, join_vars>>
non_envelope_vars ==
    <<disco_vars, mdns_vars, validate_vars, resolve_vars, feed_vars, decode_vars, command_vars, fetch_vars, handle_vars, join_vars>>
non_resolve_vars ==
    <<disco_vars, mdns_vars, validate_vars, envelope_vars, feed_vars, decode_vars, command_vars, fetch_vars, handle_vars, join_vars>>
non_feed_vars ==
    <<disco_vars, mdns_vars, validate_vars, envelope_vars, resolve_vars, decode_vars, command_vars, fetch_vars, handle_vars, join_vars>>
non_decode_vars ==
    <<disco_vars, mdns_vars, validate_vars, envelope_vars, resolve_vars, feed_vars, command_vars, fetch_vars, handle_vars, join_vars>>
non_command_vars ==
    <<disco_vars, mdns_vars, validate_vars, envelope_vars, resolve_vars, feed_vars, decode_vars, fetch_vars, handle_vars, join_vars>>
non_fetch_vars ==
    <<disco_vars, mdns_vars, validate_vars, envelope_vars, resolve_vars, feed_vars, decode_vars, command_vars, handle_vars, join_vars>>
non_handle_vars ==
    <<disco_vars, mdns_vars, validate_vars, envelope_vars, resolve_vars, feed_vars, decode_vars, command_vars, fetch_vars, join_vars>>
non_join_vars ==
    <<disco_vars, mdns_vars, validate_vars, envelope_vars, resolve_vars, feed_vars, decode_vars, command_vars, fetch_vars, handle_vars>>

----------------------------------------------------------------------------
(* Option and Result values *)

None == [some |-> FALSE]
Some(v) == [some |-> TRUE, val |-> v]

Ok(v) == [ok |-> TRUE, val |-> v]
Err(e) == [ok |-> FALSE, err |-> e]

\* All sequences over S of length at most n.
SeqUpTo(S, n) == UNION {[1..k -> S] : k \in 0..n}

----------------------------------------------------------------------------
(* Discovery: src/src/disco.rs *)

\* Longest array the discovery endpoint answers with.
MaxObjects == 2

DiscoveryError(msg) == [kind |-> "DiscoveryError", msg |-> msg]

\* The strings an internalipaddress field may hold, and what str::parse::<IpAddr>
\* makes of each: an address (as its octets) or an AddrParseError.
IpStrings == {"192.168.1.149", "10.0.0.7", "not-an-ip"}

ParseIpAddr(s) ==
    CASE s = "192.168.1.149" -> Ok(<<192, 168, 1, 149>>)
      [] s = "10.0.0.7" -> Ok(<<10, 0, 0, 7>>)
      [] OTHER -> Err([kind |-> "AddrParseError", msg |-> "invalid IP address syntax"])

IpAddrs == {<<192, 168, 1, 149>>, <<10, 0, 0, 7>>}

\* What the mDNS resolver does for one query: it cannot be created, the query
\* errors, the query ends without an answer, or it yields an address.
MdnsOutcomes ==
    {[t |-> "new_failed"], [t |-> "query_failed"], [t |-> "no_answer"]}
        \cup {[t |-> "answer", ip |-> ip] : ip \in IpAddrs}

discover_hue_bridge_m_dns(o) ==
    CASE o.t = "new_failed" -> Err(DiscoveryError("resolver could not be created"))
      [] o.t = "answer" -> Ok(o.ip)
      [] o.t = "no_answer" -> Err(DiscoveryError("No response from bridge"))
      [] OTHER -> Err(DiscoveryError("resolver query failed"))

\* One object of the endpoint's JSON array, reduced to its internalipaddress
\* field: absent, a JSON value that is no string, or a string.
NUpnpObjects ==
    {[field |-> "absent"], [field |-> "number"]}
        \cup {[field |-> "string", str |-> s] : s \in IpStrings}

\* What the GET to discovery.meethue.com yields: a transport failure, a body
\* that is no array of objects, or an array of objects.
NUpnpResponses ==
    {[t |-> "request_failed"], [t |-> "body_not_array"]}
        \cup {[t |-> "array", objects |-> os] : os \in SeqUpTo(NUpnpObjects, MaxObjects)}

\* Faulty variant of discover_hue_bridge_n_upnp: the first object that holds
\* an address is taken, wherever it is in the array.
discover_hue_bridge_n_upnp_AnyObject(r) ==
    IF r.t = "request_failed" THEN Err([kind |-> "Reqwest", msg |-> "request failed"])
    ELSE IF r.t = "body_not_array" THEN Err([kind |-> "Reqwest", msg |-> "decode failed"])
    ELSE LET usable == {i \in 1..Len(r.objects) :
                            /\ r.objects[i].field = "string"
                            /\ ParseIpAddr(r.objects[i].str).ok}
         IN IF usable = {} THEN Err(DiscoveryError("expected non-empty array"))
            ELSE ParseIpAddr(r.objects[CHOOSE i \in usable : \A j \in usable : i <= j].str)

\* discover_hue_bridge_n_upnp, given what its one GET yields.
discover_hue_bridge_n_upnp(r) ==
    IF r.t = "request_failed" THEN Err([kind |-> "Reqwest", msg |-> "request failed"])
    ELSE IF r.t = "body_not_array" THEN Err([kind |-> "Reqwest", msg |-> "decode failed"])
    ELSE IF Len(r.objects) = 0 THEN Err(DiscoveryError("expected non-empty array"))
    ELSE LET object == r.objects[1] IN
         IF object.field = "absent" THEN Err(DiscoveryError("Expected internalipaddress"))
         ELSE IF object.field # "string"
              THEN Err(DiscoveryError("expect a string in internalipaddress"))
         ELSE ParseIpAddr(object.str)

\* Faulty variant of FallbackResult: the n-upnp error is passed on to the caller.
FallbackResult_Propagate(mdns_error, r) ==
    IF r.ok THEN Ok(r.val) ELSE Err(r.err)

\* The value discover_hue_bridge returns once n-upnp has answered.
FallbackResult(mdns_error, r) ==
    IF r.ok THEN Ok(r.val) ELSE Err(DiscoveryError("Could not discover bridge"))

LogLine(level, what, value) == [level |-> level, what |-> what, value |-> value]

IdleDisco ==
    /\ disco_pc = "idle"
    /\ mdns_calls = 0
    /\ n_upnp_requests = 0
    /\ bridge = None
    /\ n_upnp_response = None
    /\ n_upnp_result = None
    /\ disco_result = None
    /\ disco_log = <<>>

StartDisco ==
    /\ disco_pc = "start"
    /\ mdns_calls = 0
    /\ n_upnp_requests = 0
    /\ bridge = None
    /\ n_upnp_response = None
    /\ n_upnp_result = None
    /\ disco_result = None
    /\ disco_log = <<>>

\* Faulty variant of CallMdns: the n-upnp request is sent along with the mDNS
\* query instead of after it.
CallMdns_Race ==
    /\ disco_pc = "start"
    /\ disco_pc' = "mdns"
    /\ mdns_calls' = mdns_calls + 1
    /\ n_upnp_requests' = n_upnp_requests + 1
    /\ UNCHANGED <<bridge, n_upnp_response, n_upnp_result, disco_result, disco_log>>
    /\ UNCHANGED non_disco_vars

\* discover_hue_bridge is entered: the mDNS call is made and awaited.
CallMdns ==
    /\ disco_pc = "start"
    /\ disco_pc' = "mdns"
    /\ mdns_calls' = mdns_calls + 1
    /\ UNCHANGED <<n_upnp_requests, bridge, n_upnp_response, n_upnp_result,
                   disco_result, disco_log>>
    /\ UNCHANGED non_disco_vars

\* The mDNS call returns Ok(bridge_ip): that address is returned.
MdnsOk ==
    /\ disco_pc = "mdns"
    /\ \E o \in MdnsOutcomes :
         LET b == discover_hue_bridge_m_dns(o) IN
         /\ b.ok
         /\ bridge' = Some(b)
         /\ disco_log' = Append(disco_log, LogLine("info", "discovered using mDNS", b.val))
         /\ disco_result' = Some(Ok(b.val))
    /\ disco_pc' = "done"
    /\ UNCHANGED <<mdns_calls, n_upnp_requests, n_upnp_response, n_upnp_result>>
    /\ UNCHANGED non_disco_vars

\* Faulty variant of MdnsErr: the mDNS failure ends discovery, no fallback.
MdnsErr_NoFallback ==
    /\ disco_pc = "mdns"
    /\ \E o \in MdnsOutcomes :
         LET b == discover_hue_bridge_m_dns(o) IN
         /\ ~b.ok
         /\ bridge' = Some(b)
         /\ disco_log' = Append(disco_log, LogLine("debug", "Error in mDNS discovery", b.err))
         /\ disco_result' = Some(Err(DiscoveryError("Could not discover bridge")))
    /\ disco_pc' = "done"
    /\ UNCHANGED <<mdns_calls, n_upnp_requests, n_upnp_response, n_upnp_result>>
    /\ UNCHANGED non_disco_vars

\* The mDNS call returns Err(mdns_error): the error is logged and the n-upnp
\* request is made and awaited.
MdnsErr ==
    /\ disco_pc = "mdns"
    /\ \E o \in MdnsOutcomes :
         LET b == discover_hue_bridge_m_dns(o) IN
         /\ ~b.ok
         /\ bridge' = Some(b)
         /\ disco_log' = Append(disco_log, LogLine("debug", "Error in mDNS discovery", b.err))
    /\ n_upnp_requests' = n_upnp_requests + 1
    /\ disco_pc' = "n_upnp"
    /\ UNCHANGED <<mdns_calls, n_upnp_response, n_upnp_result, disco_result>>
    /\ UNCHANGED non_disco_vars

\* The n-upnp call returns: its address is returned, or its error is logged
\* and the one discovery error is returned.
NUpnpReturns ==
    /\ disco_pc = "n_upnp"
    /\ \E resp \in NUpnpResponses :
         LET r == discover_hue_bridge_n_upnp(resp) IN
         /\ n_upnp_response' = Some(resp)
         /\ n_upnp_result' = Some(r)
         /\ disco_log' = Append(disco_log,
                IF r.ok THEN LogLine("info", "discovered using n-upnp", r.val)
                ELSE LogLine("debug", "Failed to discover bridge", r.err))
         /\ disco_result' = Some(FallbackResult(bridge.val.err, r))
    /\ disco_pc' = "done"
    /\ UNCHANGED <<mdns_calls, n_upnp_requests, bridge>>
    /\ UNCHANGED non_disco_vars

NextDisco ==
    \/ CallMdns
    \/ MdnsOk
    \/ MdnsErr
    \/ NUpnpReturns


MdnsFailed == bridge.some /\ ~bridge.val.ok
MdnsSucceeded == bridge.some /\ bridge.val.ok
NUpnpFailed == n_upnp_result.some /\ ~n_upnp_result.val.ok
NUpnpSucceeded == n_upnp_result.some /\ n_upnp_result.val.ok
Logged(value) == \E i \in 1..Len(disco_log) : disco_log[i].value = value

\* C1: once the mDNS call has failed, whatever its error, exactly one n-upnp
\* request has been made (and never more than one in any state); and when the
\* n-upnp call then returns an address, discover_hue_bridge returns Ok of
\* that very address.
C1_FallbackOnce ==
    /\ n_upnp_requests <= 1
    /\ MdnsFailed => n_upnp_requests = 1
    /\ (MdnsFailed /\ disco_pc = "done") =>
          /\ n_upnp_result.some
          /\ disco_result.some
          /\ n_upnp_result.val.ok =>
                /\ disco_result.val.ok
                /\ disco_result.val.val = n_upnp_result.val.val
                /\ ParseIpAddr(n_upnp_response.val.objects[1].str)
                      = Ok(disco_result.val.val)

\* The mDNS query got no answer, the endpoint's first object holds a valid
\* address, and that address has been returned.
C1_Witness ==
    /\ disco_pc = "done"
    /\ MdnsFailed
    /\ bridge.val.err.msg = "No response from bridge"
    /\ n_upnp_requests = 1
    /\ NUpnpSucceeded
    /\ disco_result = Some(Ok(<<10, 0, 0, 7>>))

\* C13: discover_hue_bridge_n_upnp has made one request when it returns. It
\* succeeds only when the array has a first object whose internalipaddress is
\* a string that parses as an address, and then with that address: it fails
\* when the array is empty and when the first object has no internalipaddress,
\* one that is no string, or one that does not parse, whatever the objects
\* after the first hold.
C13_FirstObjectOnly ==
    n_upnp_result.some =>
        LET r == n_upnp_response.val
            got == n_upnp_result.val
        IN /\ n_upnp_requests = 1
           /\ r.t = "array" =>
                /\ Len(r.objects) = 0 => ~got.ok
                /\ Len(r.objects) > 0 =>
                     /\ r.objects[1].field \in {"absent", "number"} => ~got.ok
                     /\ (r.objects[1].field = "string" /\ r.objects[1].str = "not-an-ip")
                            => ~got.ok
                     /\ (r.objects[1].field = "string" /\ r.objects[1].str # "not-an-ip")
                            => got = ParseIpAddr(r.objects[1].str) /\ got.val \in IpAddrs
           /\ r.t # "array" => ~got.ok

\* The first object has no internalipaddress and the second holds an address:
\* the call fails.
C13_Witness ==
    /\ n_upnp_result.some
    /\ n_upnp_response.val.t = "array"
    /\ n_upnp_response.val.objects =
          <<[field |-> "absent"], [field |-> "string", str |-> "10.0.0.7"]>>
    /\ n_upnp_result.val = Err(DiscoveryError("Expected internalipaddress"))

\* C2: when both the mDNS call and the n-upnp call have failed, the error
\* returned is DiscoveryError "Could not discover bridge" whatever the two
\* underlying errors are; both of them are in the log and nowhere in the
\* returned value.
C2_UnifiedError ==
    (disco_pc = "done" /\ MdnsFailed /\ NUpnpFailed) =>
        /\ disco_result = Some(Err(DiscoveryError("Could not discover bridge")))
        /\ Logged(bridge.val.err)
        /\ Logged(n_upnp_result.val.err)

\* The resolver could not be created and the endpoint's address did not parse:
\* two errors unlike the one returned.
C2_Witness ==
    /\ disco_pc = "done"
    /\ MdnsFailed
    /\ bridge.val.err.msg = "resolver could not be created"
    /\ NUpnpFailed
    /\ n_upnp_result.val.err.kind = "AddrParseError"
    /\ ~disco_result.val.ok

\* C3: an n-upnp request has been made only if the mDNS call has already
\* returned, with an error; while the mDNS call is awaited no request is out;
\* and when the mDNS call returned an address, no n-upnp request is ever made
\* and that address is what discover_hue_bridge returns.
C3_Sequential ==
    /\ n_upnp_requests > 0 => MdnsFailed
    /\ disco_pc \in {"start", "mdns"} => (n_upnp_requests = 0 /\ ~bridge.some)
    /\ MdnsSucceeded =>
          /\ n_upnp_requests = 0
          /\ ~n_upnp_result.some
          /\ disco_pc = "done"
          /\ disco_result = Some(Ok(bridge.val.val))

\* The mDNS call returned an address: it is the result and no request was made.
C3_Witness ==
    /\ disco_pc = "done"
    /\ MdnsSucceeded
    /\ n_upnp_requests = 0
    /\ disco_result = Some(Ok(<<192, 168, 1, 149>>))

----------------------------------------------------------------------------
(* The mDNS-SD browse query: src/src/disco/mdns.rs *)

\* Most records in the answer section, and in the additional section, of a
\* DNS message given to validate_response.
MaxAnswers == 2
MaxAdditional == 2
\* Most records in either section of a datagram met by the receive loop.
MaxLoopRecords == 1
\* Longest time, in seconds, that binding the socket and sending the query take.
MaxStart == 2

SERVICE_NAME == "_hue._tcp.local"
dns_query_id == 4343
\* Duration::from_secs(3)
MdnsTimeout == 3
\* No deadline is later than this.
MaxNow == MaxStart + MdnsTimeout

MdnsError(kind, msg) == [kind |-> "MdnsError", io |-> kind, msg |-> msg]

ServiceNames == {SERVICE_NAME, "_hap._tcp.local"}

\* The records of a DNS message, as far as validate_response reads them: the
\* name and the kind of data of an answer, the kind of data (and the address of
\* an A record) of an additional record.
AnswerRecords ==
    {[name |-> n, data |-> d] : n \in {SERVICE_NAME}, d \in {"PTR", "TXT"}}
        \cup {[name |-> "_hap._tcp.local", data |-> "PTR"]}

AdditionalRecords ==
    {[data |-> "A", ip |-> ip] : ip \in IpAddrs} \cup {[data |-> "SRV"]}

\* An A record in the answer section, as validate_response may be given.
AddressAnswers == {[name |-> "bridge.local", data |-> "A", ip |-> <<10, 0, 0, 7>>]}

\* The address the datagrams come from: one that no record holds, so that it
\* is told apart from the addresses of the records.
OriginAddrs == {<<192, 168, 1, 20>>}

\* What dns_parser::Packet::parse makes of the bytes received: an error, or a
\* packet with a header id, at most na answers out of a set of records and at
\* most nad additional records.
DnsPackets(answers, na, nad) ==
    {[parsed |-> FALSE]}
        \cup {[parsed |-> TRUE, id |-> id, answers |-> an, additional |-> ad] :
                id \in {dns_query_id, 0},
                an \in SeqUpTo(answers, na),
                ad \in SeqUpTo(AdditionalRecords, nad)}

DnsBytes(na, nad) == DnsPackets(AnswerRecords, na, nad)

\* packet.answers.iter().any(..)
has_right_answer(packet, service_name) ==
    \E i \in 1..Len(packet.answers) :
        LET answer == packet.answers[i]
            is_ptr_record == answer.data = "PTR"
            is_corresponding_answer_from_request == answer.name = service_name
        IN is_ptr_record /\ is_corresponding_answer_from_request

\* Faulty variant of first_a_record_ip: the answers are searched as well,
\* before the additional records.
first_a_record_ip_AnySection(packet) ==
    LET records == packet.answers \o packet.additional
        is_a == {i \in 1..Len(records) : records[i].data = "A"}
    IN IF is_a = {} THEN None
       ELSE Some(records[CHOOSE i \in is_a : \A j \in is_a : i <= j].ip)

\* packet.additional.iter().find_map(..): the address of the first A record.
first_a_record_ip(packet) ==
    LET is_a == {i \in 1..Len(packet.additional) : packet.additional[i].data = "A"} IN
    IF is_a = {} THEN None
    ELSE Some(packet.additional[CHOOSE i \in is_a : \A j \in is_a : i <= j].ip)

\* Faulty variant of validate_response: either check is enough.
validate_response_Either(dns_response_bytes, service_name, query_id) ==
    IF ~dns_response_bytes.parsed THEN None
    ELSE LET packet == dns_response_bytes
             is_related_response ==
                 packet.id = query_id \/ has_right_answer(packet, service_name)
         IN IF ~is_related_response THEN None ELSE first_a_record_ip(packet)

validate_response(dns_response_bytes, service_name, query_id) ==
    IF ~dns_response_bytes.parsed THEN None
    ELSE LET packet == dns_response_bytes
             is_related_response ==
                 packet.id = query_id /\ has_right_answer(packet, service_name)
         IN IF ~is_related_response THEN None ELSE first_a_record_ip(packet)

IdleMdns ==
    /\ mdns_pc = "idle"
    /\ now = 0
    /\ deadline = None
    /\ queries_sent = 0
    /\ datagram = None
    /\ origin_addr = None
    /\ service_ip = None
    /\ mdns_result = None

StartMdns ==
    /\ mdns_pc = "bind"
    /\ now = 0
    /\ deadline = None
    /\ queries_sent = 0
    /\ datagram = None
    /\ origin_addr = None
    /\ service_ip = None
    /\ mdns_result = None

\* Time passes. Once the deadline is reached the timer of timeout_at is due.
Tick ==
    /\ mdns_pc \in {"bind", "send", "recv"}
    /\ mdns_pc \in {"bind", "send"} => now < MaxStart
    /\ mdns_pc = "recv" => now < deadline.val
    /\ now < MaxNow
    /\ now' = now + 1
    /\ UNCHANGED <<mdns_pc, deadline, queries_sent, datagram, origin_addr, service_ip, mdns_result>>
    /\ UNCHANGED non_mdns_vars

\* UdpSocket::bind succeeds.
Bind ==
    /\ mdns_pc = "bind"
    /\ mdns_pc' = "send"
    /\ UNCHANGED <<now, deadline, queries_sent, datagram, origin_addr, service_ip, mdns_result>>
    /\ UNCHANGED non_mdns_vars

\* UdpSocket::bind fails: the error is returned.
BindFails ==
    /\ mdns_pc = "bind"
    /\ mdns_pc' = "done"
    /\ mdns_result' = Some(Err(MdnsError("AddrInUse", "bind failed")))
    /\ UNCHANGED <<now, deadline, queries_sent, datagram, origin_addr, service_ip>>
    /\ UNCHANGED non_mdns_vars

\* The query is sent; the deadline is set and the receive loop is entered.
Send ==
    /\ mdns_pc = "send"
    /\ queries_sent' = queries_sent + 1
    /\ deadline' = Some(now + MdnsTimeout)
    /\ mdns_pc' = "recv"
    /\ UNCHANGED <<now, datagram, origin_addr, service_ip, mdns_result>>
    /\ UNCHANGED non_mdns_vars

\* send_to fails: the error is returned.
SendFails ==
    /\ mdns_pc = "send"
    /\ mdns_pc' = "done"
    /\ mdns_result' = Some(Err(MdnsError("NetworkUnreachable", "send failed")))
    /\ UNCHANGED <<now, deadline, queries_sent, datagram, origin_addr, service_ip>>
    /\ UNCHANGED non_mdns_vars

\* Faulty variant of Recv: a datagram that gives no address ends the discovery.
Recv_AbortOnNoAddress ==
    /\ mdns_pc = "recv"
    /\ now < deadline.val
    /\ \E bytes \in DnsBytes(MaxLoopRecords, MaxLoopRecords) :
         LET ip == validate_response(bytes, SERVICE_NAME, dns_query_id) IN
         /\ datagram' = Some(bytes)
         /\ \E origin \in OriginAddrs : origin_addr' = Some(origin)
         /\ service_ip' = ip
         /\ mdns_result' = Some(IF ip.some THEN Ok(ip.val)
                                ELSE Err(MdnsError("InvalidData", "not a valid response")))
    /\ mdns_pc' = "done"
    /\ UNCHANGED <<now, deadline, queries_sent>>
    /\ UNCHANGED non_mdns_vars

\* Faulty variant of Recv: every datagram received pushes the deadline back.
Recv_ResetDeadline ==
    /\ mdns_pc = "recv"
    /\ now < deadline.val
    /\ \E bytes \in DnsBytes(MaxLoopRecords, MaxLoopRecords) :
         LET ip == validate_response(bytes, SERVICE_NAME, dns_query_id) IN
         /\ datagram' = Some(bytes)
         /\ \E origin \in OriginAddrs : origin_addr' = Some(origin)
         /\ service_ip' = ip
         /\ IF ip.some
            THEN mdns_pc' = "done" /\ mdns_result' = Some(Ok(ip.val))
            ELSE UNCHANGED <<mdns_pc, mdns_result>>
    /\ deadline' = Some(now + MdnsTimeout)
    /\ UNCHANGED <<now, queries_sent>>
    /\ UNCHANGED non_mdns_vars

\* A datagram arrives before the deadline: it is validated; an address ends the
\* loop, anything else goes round it again.
Recv ==
    /\ mdns_pc = "recv"
    /\ now < deadline.val
    /\ \E bytes \in DnsBytes(MaxLoopRecords, MaxLoopRecords) :
         LET ip == validate_response(bytes, SERVICE_NAME, dns_query_id) IN
         /\ datagram' = Some(bytes)
         /\ \E origin \in OriginAddrs : origin_addr' = Some(origin)
         /\ service_ip' = ip
         /\ IF ip.some
            THEN mdns_pc' = "done" /\ mdns_result' = Some(Ok(ip.val))
            ELSE UNCHANGED <<mdns_pc, mdns_result>>
    /\ UNCHANGED <<now, deadline, queries_sent>>
    /\ UNCHANGED non_mdns_vars

\* recv_from fails before the deadline: the error is returned.
RecvFails ==
    /\ mdns_pc = "recv"
    /\ now < deadline.val
    /\ mdns_pc' = "done"
    /\ mdns_result' = Some(Err(MdnsError("ConnectionReset", "recv failed")))
    /\ UNCHANGED <<now, deadline, queries_sent, datagram, origin_addr, service_ip>>
    /\ UNCHANGED non_mdns_vars

\* The deadline elapses while recv_from is awaited: the timeout error is returned.
RecvTimeout ==
    /\ mdns_pc = "recv"
    /\ now >= deadline.val
    /\ mdns_pc' = "done"
    /\ mdns_result' =
         Some(Err(MdnsError("TimedOut", "mDNS response was not received on time")))
    /\ UNCHANGED <<now, deadline, queries_sent, datagram, origin_addr, service_ip>>
    /\ UNCHANGED non_mdns_vars

NextMdns ==
    \/ Tick
    \/ Bind
    \/ BindFails
    \/ Send
    \/ SendFails
    \/ Recv
    \/ RecvFails
    \/ RecvTimeout

IdleValidate ==
    /\ vr_pc = "idle"
    /\ vr_bytes = None
    /\ vr_service_name = None
    /\ vr_result = None

\* validate_response is called with any bytes and either service name.
StartValidate ==
    /\ vr_pc = "call"
    /\ \E bytes \in DnsPackets(AnswerRecords \cup AddressAnswers, MaxAnswers, MaxAdditional) :
         vr_bytes = Some(bytes)
    /\ \E name \in ServiceNames : vr_service_name = Some(name)
    /\ vr_result = None

Validate ==
    /\ vr_pc = "call"
    /\ vr_result' = Some(validate_response(vr_bytes.val, vr_service_name.val, dns_query_id))
    /\ vr_pc' = "returned"
    /\ UNCHANGED <<vr_bytes, vr_service_name>>
    /\ UNCHANGED non_validate_vars

NextValidate == Validate

\* The datagram is a match as Policy A words it: it parses, its id is the
\* query's and one of its answers is a PTR record named as the service.
IsMatch(bytes) ==
    /\ bytes.parsed
    /\ bytes.id = dns_query_id
    /\ \E i \in 1..Len(bytes.answers) :
         bytes.answers[i].data = "PTR" /\ bytes.answers[i].name = SERVICE_NAME

HasARecord(bytes) ==
    \E i \in 1..Len(bytes.additional) : bytes.additional[i].data = "A"

TimedOut ==
    /\ mdns_result.some
    /\ ~mdns_result.val.ok
    /\ mdns_result.val.err.io = "TimedOut"

\* C4 as stated: the first received datagram that is a match (id and PTR
\* answer) ends the loop with success.
C4_SuccessOnFirstMatch ==
    (datagram.some /\ IsMatch(datagram.val)) =>
        /\ mdns_pc = "done"
        /\ mdns_result.some
        /\ mdns_result.val.ok

\* What holds in every state of the receive loop and after it.
C4_LoopState ==
    /\ mdns_pc = "recv" => deadline.some
    /\ (datagram.some /\ IsMatch(datagram.val) /\ HasARecord(datagram.val)) =>
          /\ mdns_pc = "done"
          /\ mdns_result.some
          /\ mdns_result.val.ok
    /\ (mdns_result.some /\ mdns_result.val.ok) =>
          /\ datagram.some
          /\ IsMatch(datagram.val)
          /\ HasARecord(datagram.val)
    /\ TimedOut =>
          /\ deadline.some
          /\ now >= deadline.val
    /\ (mdns_pc = "done" /\ deadline.some /\ ~mdns_result.val.ok) =>
          /\ mdns_result.val.err.kind = "MdnsError"
          /\ mdns_result.val.err.io \in {"TimedOut", "ConnectionReset"}

\* C4, amended: the receive loop always ends. It returns success on the first
\* received datagram that is a match (id and PTR answer) and also holds an A
\* record in its additional section; a match without an A record is passed
\* over like any other datagram. A receive error ends the loop with that
\* error. Otherwise the loop fails with the timeout error, and only once the
\* deadline has elapsed; the deadline is set once, before the first receive,
\* and no datagram changes it.
C4_LoopEnds ==
    /\ []C4_LoopState
    /\ [][deadline.some => deadline' = deadline]_vars
    /\ (mdns_pc = "recv") ~> (mdns_pc = "done")

\* The loop timed out at its deadline although the last datagram it received
\* was a match without an A record.
C4_Witness ==
    /\ mdns_pc = "done"
    /\ TimedOut
    /\ now = deadline.val
    /\ datagram.some
    /\ IsMatch(datagram.val)
    /\ ~HasARecord(datagram.val)

\* C16: the query is sent at most once; and when the loop receives a datagram
\* that does not parse, or that parses and is no match, it stays in the loop
\* with no result, no query sent again and the deadline as it was.
C16_BadDatagramPassedOver ==
    /\ [](queries_sent <= 1)
    /\ [][(mdns_pc = "recv" /\ datagram' # datagram /\ ~IsMatch(datagram'.val)) =>
            /\ mdns_pc' = "recv"
            /\ mdns_result' = None
            /\ queries_sent' = queries_sent
            /\ deadline' = deadline]_vars

\* The loop has received bytes that do not parse and is receiving still, one
\* query sent and the deadline not yet reached.
C16_Witness ==
    /\ mdns_pc = "recv"
    /\ datagram.some
    /\ ~datagram.val.parsed
    /\ queries_sent = 1
    /\ mdns_result = None
    /\ now < deadline.val

\* The address of the first A record of a list of records, if it has one.
RECURSIVE FirstAddress(_)
FirstAddress(records) ==
    IF records = <<>> THEN None
    ELSE IF Head(records).data = "A" THEN Some(Head(records).ip)
    ELSE FirstAddress(Tail(records))

\* C17: the address validate_response returns is that of the first A record
\* of the additional section, whatever the answer section holds; and the
\* address discover_mdns_sd returns is that of the first A record of the
\* additional section of the datagram last received, not where it came from.
C17_AddressFromAdditional ==
    /\ (vr_pc = "returned" /\ vr_result.val.some) =>
          vr_result.val = FirstAddress(vr_bytes.val.additional)
    /\ (mdns_pc = "done" /\ mdns_result.val.ok) =>
          /\ Some(mdns_result.val.val) = FirstAddress(datagram.val.additional)
          /\ mdns_result.val.val # origin_addr.val

\* The answers hold the PTR record and an A record, the additional section
\* two A records with other addresses first: the first of these is returned.
C17_Witness ==
    /\ vr_pc = "returned"
    /\ vr_bytes.val.parsed
    /\ vr_bytes.val.answers =
          <<[name |-> SERVICE_NAME, data |-> "PTR"],
            [name |-> "bridge.local", data |-> "A", ip |-> <<10, 0, 0, 7>>]>>
    /\ vr_bytes.val.additional =
          <<[data |-> "A", ip |-> <<192, 168, 1, 149>>], [data |-> "A", ip |-> <<10, 0, 0, 7>>]>>
    /\ vr_result.val = Some(<<192, 168, 1, 149>>)

\* C5: validate_response returns an address only for bytes that parse, whose
\* header id is the query id and one of whose answers is a PTR record named as
\* the queried service. Bytes with another id are rejected whatever their
\* records, and bytes without such a PTR answer are rejected even when the id
\* is right and the additional section holds A records.
C5_AcceptsOnlyMatches ==
    vr_pc = "returned" =>
        LET bytes == vr_bytes.val
            ptr_named == \E i \in 1..Len(bytes.answers) :
                            /\ bytes.answers[i].data = "PTR"
                            /\ bytes.answers[i].name = vr_service_name.val
        IN /\ vr_result.val.some => (bytes.parsed /\ bytes.id = dns_query_id /\ ptr_named)
           /\ (bytes.parsed /\ bytes.id # dns_query_id) => ~vr_result.val.some
           /\ (bytes.parsed /\ ~ptr_named) => ~vr_result.val.some

\* Rejected: the id is right and there is an A record, but the only PTR answer
\* is named for another service.
C5_Witness ==
    /\ vr_pc = "returned"
    /\ vr_bytes.val.parsed
    /\ vr_bytes.val.id = dns_query_id
    /\ vr_service_name.val = SERVICE_NAME
    /\ vr_bytes.val.answers = <<[name |-> "_hap._tcp.local", data |-> "PTR"]>>
    /\ \E i \in 1..Len(vr_bytes.val.additional) : vr_bytes.val.additional[i].data = "A"
    /\ ~vr_result.val.some

----------------------------------------------------------------------------
(* The response envelopes: src/src/bridge.rs *)

\* Longest JSON array in a response body.
MaxItems == 2

\* The payloads T of a response.
Payloads == {"A", "B"}

\* The entries of the errors list of the current envelope.
Descriptions == {"unauthorized user", "link button not pressed"}

\* A JSON object of a legacy body, by what it deserializes as: as a T (shape
\* "T"), as a BridgeError (shape "error": an error member with address,
\* description and type), as either (shape "both": serde ignores the members a
\* struct does not name) or as neither (shape "other").
JsonObjects ==
    {[shape |-> "T", val |-> v] : v \in Payloads}
        \cup {[shape |-> "error", type |-> 1, description |-> "unauthorized user"],
              [shape |-> "error", type |-> 101, description |-> "link button not pressed"],
              [shape |-> "both", val |-> "A", type |-> 7, description |-> "invalid value"],
              [shape |-> "other"]}

\* A legacy body: one JSON object, an array of them, or any other JSON value.
LegacyBodies ==
    {[json |-> "object", item |-> o] : o \in JsonObjects}
        \cup {[json |-> "array", items |-> os] : os \in SeqUpTo(JsonObjects, MaxItems)}
        \cup {[json |-> "scalar"]}

\* A current body, as deserialized into BridgeResponseV2<T>.
V2Bodies ==
    {[errors |-> es, data |-> ds] :
        es \in SeqUpTo({[description |-> d] : d \in Descriptions}, MaxItems),
        ds \in SeqUpTo(Payloads, MaxItems)}

IsT(o) == o.shape \in {"T", "both"}
IsBridgeError(o) == o.shape \in {"error", "both"}
AsBridgeError(o) == [error |-> [type |-> o.type, description |-> o.description]]

\* Faulty variant of DeserializeBridgeResponse: Errors is tried before List.
DeserializeBridgeResponse_ErrorsFirst(body) ==
    IF body.json = "object" /\ IsT(body.item)
    THEN Ok([variant |-> "Element", t |-> body.item.val])
    ELSE IF body.json = "array" /\ \A i \in 1..Len(body.items) : IsBridgeError(body.items[i])
    THEN Ok([variant |-> "Errors",
             es |-> [i \in 1..Len(body.items) |-> AsBridgeError(body.items[i])]])
    ELSE IF body.json = "array" /\ \A i \in 1..Len(body.items) : IsT(body.items[i])
    THEN Ok([variant |-> "List", ts |-> [i \in 1..Len(body.items) |-> body.items[i].val]])
    ELSE Err([kind |-> "Reqwest", msg |-> "data did not match any variant"])

\* #[serde(untagged)] enum BridgeResponse<T>: the variants are tried in the
\* order they are declared and the first that deserializes is taken. (T is a
\* JSON object here: an array is never read as the fields of one T.)
DeserializeBridgeResponse(body) ==
    IF body.json = "object" /\ IsT(body.item)
    THEN Ok([variant |-> "Element", t |-> body.item.val])
    ELSE IF body.json = "array" /\ \A i \in 1..Len(body.items) : IsT(body.items[i])
    THEN Ok([variant |-> "List", ts |-> [i \in 1..Len(body.items) |-> body.items[i].val]])
    ELSE IF body.json = "array" /\ \A i \in 1..Len(body.items) : IsBridgeError(body.items[i])
    THEN Ok([variant |-> "Errors",
             es |-> [i \in 1..Len(body.items) |-> AsBridgeError(body.items[i])]])
    ELSE Err([kind |-> "Reqwest", msg |-> "data did not match any variant"])

\* Vec::pop: the last element, if there is one.
Pop(v) == IF Len(v) = 0 THEN None ELSE Some(v[Len(v)])

\* Faulty variant of BridgeResponse_get: the first entry is taken, not the last.
BridgeResponse_get_First(self) ==
    CASE self.variant = "Element" -> Ok(self.t)
      [] self.variant = "List" ->
           IF Len(self.ts) = 0
           THEN Err([kind |-> "ProtocolError", msg |-> "expected non-empty array"])
           ELSE Ok(Head(self.ts))
      [] self.variant = "Errors" ->
           LET error == Head(self.es).error IN
           Err([kind |-> "BridgeError", code |-> error.type, msg |-> error.description])

\* BridgeResponse::get. The unwrap of an empty Errors list panics.
BridgeResponse_get(self) ==
    CASE self.variant = "Element" -> Ok(self.t)
      [] self.variant = "List" ->
           IF Pop(self.ts).some
           THEN Ok(Pop(self.ts).val)
           ELSE Err([kind |-> "ProtocolError", msg |-> "expected non-empty array"])
      [] self.variant = "Errors" ->
           IF Pop(self.es).some
           THEN LET error == Pop(self.es).val.error IN
                Err([kind |-> "BridgeError", code |-> error.type, msg |-> error.description])
           ELSE [ok |-> FALSE, panic |-> TRUE]

\* Faulty variant of BridgeResponseV2_get: data, when there is some, wins.
BridgeResponseV2_get_DataFirst(self) ==
    IF Len(self.data) = 0 /\ Pop(self.errors).some
    THEN Err([kind |-> "BridgeErrorV2", description |-> Pop(self.errors).val.description])
    ELSE Ok(self.data)

\* BridgeResponseV2::get
BridgeResponseV2_get(self) ==
    IF Pop(self.errors).some
    THEN Err([kind |-> "BridgeErrorV2", description |-> Pop(self.errors).val.description])
    ELSE Ok(self.data)

IdleEnvelope ==
    /\ env_pc = "idle"
    /\ env_body = None
    /\ env_result = None

\* A body of either shape has been received.
StartEnvelope ==
    /\ \/ env_pc = "legacy" /\ \E b \in LegacyBodies : env_body = Some(b)
       \/ env_pc = "v2" /\ \E b \in V2Bodies : env_body = Some(b)
    /\ env_result = None

\* The legacy body is deserialized (.json().await?) and unwrapped (resp.get()?).
GetLegacy ==
    /\ env_pc = "legacy"
    /\ LET resp == DeserializeBridgeResponse(env_body.val) IN
       env_result' = Some(IF resp.ok THEN BridgeResponse_get(resp.val) ELSE resp)
    /\ env_pc' = "done"
    /\ UNCHANGED env_body
    /\ UNCHANGED non_envelope_vars

\* The current body is unwrapped (resp.get()?).
GetV2 ==
    /\ env_pc = "v2"
    /\ env_result' = Some(BridgeResponseV2_get(env_body.val))
    /\ env_pc' = "done"
    /\ UNCHANGED env_body
    /\ UNCHANGED non_envelope_vars

NextEnvelope ==
    \/ GetLegacy
    \/ GetV2

LegacyDone == env_pc = "done" /\ "json" \in DOMAIN env_body.val
V2Done == env_pc = "done" /\ "errors" \in DOMAIN env_body.val

AllOfShape(items, shape) == \A i \in 1..Len(items) : items[i].shape = shape

\* C6: BridgeResponse::get on a single object yields that object; on an array
\* of one or more objects, its last element; on the empty array, the protocol
\* error "expected non-empty array"; on an array of error entries, the bridge
\* error with the code and the message of the last entry.
C6_LegacyGet ==
    LegacyDone =>
        LET body == env_body.val IN
        /\ (body.json = "object" /\ body.item.shape = "T") =>
              env_result.val = Ok(body.item.val)
        /\ (body.json = "array" /\ Len(body.items) >= 1 /\ AllOfShape(body.items, "T")) =>
              env_result.val = Ok(body.items[Len(body.items)].val)
        /\ (body.json = "array" /\ Len(body.items) = 0) =>
              env_result.val =
                  Err([kind |-> "ProtocolError", msg |-> "expected non-empty array"])
        /\ (body.json = "array" /\ Len(body.items) >= 1 /\ AllOfShape(body.items, "error")) =>
              env_result.val =
                  Err([kind |-> "BridgeError",
                       code |-> body.items[Len(body.items)].type,
                       msg |-> body.items[Len(body.items)].description])

\* An array of two error entries gave the bridge error of the second.
C6_Witness ==
    /\ LegacyDone
    /\ env_body.val.json = "array"
    /\ Len(env_body.val.items) = 2
    /\ env_body.val.items[1].shape = "error"
    /\ env_body.val.items[1].type = 1
    /\ env_body.val.items[2].shape = "error"
    /\ env_body.val.items[2].type = 101
    /\ env_result.val =
          Err([kind |-> "BridgeError", code |-> 101, msg |-> "link button not pressed"])

\* C14: BridgeResponse::get does not panic on what was decoded from a body:
\* the empty array is decoded as List, and a body decoded as Errors has at
\* least one entry.
C14_GetNeverPanics ==
    LegacyDone =>
        LET body == env_body.val
            resp == DeserializeBridgeResponse(body)
        IN /\ "panic" \notin DOMAIN env_result.val
           /\ (body.json = "array" /\ Len(body.items) = 0) =>
                 resp.ok /\ resp.val.variant = "List"
           /\ (resp.ok /\ resp.val.variant = "Errors") => Len(resp.val.es) >= 1

\* The empty array has been decoded and unwrapped: get returned an error.
C14_Witness ==
    /\ LegacyDone
    /\ env_body.val.json = "array"
    /\ Len(env_body.val.items) = 0
    /\ ~env_result.val.ok
    /\ "err" \in DOMAIN env_result.val

\* C7: BridgeResponseV2::get fails with the description of the last entry of
\* errors whenever errors is not empty, whatever data holds; with errors
\* empty it succeeds with the data list as it is, the empty list included.
C7_V2Get ==
    V2Done =>
        LET body == env_body.val IN
        /\ Len(body.errors) >= 1 =>
              env_result.val =
                  Err([kind |-> "BridgeErrorV2",
                       description |-> body.errors[Len(body.errors)].description])
        /\ Len(body.errors) = 0 => env_result.val = Ok(body.data)

\* Two errors and two data elements: the second error's description came out.
C7_Witness ==
    /\ V2Done
    /\ env_body.val.data = <<"B", "A">>
    /\ Len(env_body.val.errors) = 2
    /\ env_body.val.errors[1].description = "unauthorized user"
    /\ env_body.val.errors[2].description = "link button not pressed"
    /\ ~env_result.val.ok
    /\ env_result.val.err.description = "link button not pressed"

----------------------------------------------------------------------------
(* Fetching and resolving rooms: src/src/bridge.rs *)

\* Most references in a room's children and in a device's services.
MaxRefs == 2
\* Most devices, and most lights, in a response of the bridge.
MaxDevices == 1
MaxLights == 2

\* The ids of resources. String ids are compared as strings by the code; the
\* numbers stand for ids in that order.
ResourceIds == {1, 2}

ResourceIdentifier(rid, rtype) == [rid |-> rid, rtype |-> rtype]

\* What a room's children and a device's services may refer to.
ChildRefs ==
    {ResourceIdentifier(1, "device"), ResourceIdentifier(2, "device"),
     ResourceIdentifier(1, "light")}

ServiceRefs ==
    {ResourceIdentifier(1, "light"), ResourceIdentifier(2, "light"),
     ResourceIdentifier(1, "zigbee_connectivity")}

\* Option<Vec<ResourceIdentifier>> with at most MaxRefs references.
OptionalRefs(refs) == {None} \cup {Some(rs) : rs \in SeqUpTo(refs, MaxRefs)}

\* The resources, reduced to the fields the join reads.
Lights == {[id |-> id] : id \in ResourceIds}
Devices == {[id |-> id, services |-> ss] : id \in ResourceIds, ss \in OptionalRefs(ServiceRefs)}
Rooms == {[id |-> id, children |-> cs] : id \in ResourceIds, cs \in OptionalRefs(ChildRefs)}

\* The bridge holds at most one room.
RoomLists == {<<>>} \cup {<<room>> : room \in Rooms}

\* What a GET of a resource collection yields: a transport or status failure,
\* or a current envelope, with an error or with the collection as data.
FetchResponses(lists) ==
    {[t |-> "request_failed"],
     [t |-> "body", body |-> [errors |-> <<[description |-> "unauthorized user"]>>,
                              data |-> <<>>]]}
        \cup {[t |-> "body", body |-> [errors |-> <<>>, data |-> l]] : l \in lists}

\* Vec::sort_by(|a, b| a.id.cmp(&b.id)), a stable sort: x goes in after the
\* elements of the sorted list whose id is not greater.
RECURSIVE InsertById(_, _)
InsertById(x, sorted) ==
    IF sorted = <<>> THEN <<x>>
    ELSE IF Head(sorted).id <= x.id
         THEN <<Head(sorted)>> \o InsertById(x, Tail(sorted))
         ELSE <<x>> \o sorted

RECURSIVE SortById(_)
SortById(list) ==
    IF list = <<>> THEN <<>>
    ELSE InsertById(list[Len(list)], SortById(SubSeq(list, 1, Len(list) - 1)))

\* Faulty variant of get_all: the envelope's data as it came.
get_all_Unsorted(response) ==
    IF response.t = "request_failed"
    THEN Err([kind |-> "Reqwest", msg |-> "request failed"])
    ELSE BridgeResponseV2_get(response.body)

\* get_all_devices, get_all_lights, get_all_rooms, get_all_zones, get_all_scenes,
\* get_all_smart_scenes: the envelope's data, sorted.
get_all(response) ==
    IF response.t = "request_failed"
    THEN Err([kind |-> "Reqwest", msg |-> "request failed"])
    ELSE LET resp == BridgeResponseV2_get(response.body) IN
         IF resp.ok THEN Ok(SortById(resp.val)) ELSE resp

\* The HashMap collected from a list: an id maps to the last element with it.
IndexById(list) ==
    [id \in ResourceIds |->
        LET at == {i \in 1..Len(list) : list[i].id = id} IN
        IF at = {} THEN None ELSE Some(list[CHOOSE i \in at : \A j \in at : j <= i])]

\* HashMap::get
MapGet(map, key) == IF key \in DOMAIN map THEN map[key] ELSE None

RECURSIVE Flatten(_)
Flatten(lists) == IF lists = <<>> THEN <<>> ELSE Head(lists) \o Flatten(Tail(lists))

\* Device::get_lights: the rids of the services of type light, if there are services.
get_lights(device) ==
    IF device.services.some
    THEN LET light_services == SelectSeq(device.services.val, LAMBDA s : s.rtype = "light") IN
         Some([i \in 1..Len(light_services) |-> light_services[i].rid])
    ELSE None

\* The closure given to flat_map: the lights of the device a child names.
ChildLights(child, devices, lights) ==
    LET device == MapGet(devices, child.rid) IN
    IF ~device.some THEN <<>>
    ELSE LET light_ids == IF get_lights(device.val).some
                          THEN get_lights(device.val).val ELSE <<>>
         IN Flatten([i \in 1..Len(light_ids) |->
                LET light == MapGet(lights, light_ids[i]) IN
                IF light.some THEN <<light.val>> ELSE <<>>])

\* Faulty variant of ResolveRoom: one child without lights empties the room.
ResolveRoom_AllOrNothing(room, devices, lights) ==
    [id |-> room.id,
     children |->
        IF room.children.some
           /\ \A i \in 1..Len(room.children.val) :
                ChildLights(room.children.val[i], devices, lights) # <<>>
        THEN Flatten([i \in 1..Len(room.children.val) |->
                ChildLights(room.children.val[i], devices, lights)])
        ELSE <<>>]

\* The closure given to map: the ResolvedRoom of a room. (id_v1, metadata and
\* services are copied from the room and left out here.)
ResolveRoom(room, devices, lights) ==
    [id |-> room.id,
     children |->
        IF room.children.some
        THEN Flatten([i \in 1..Len(room.children.val) |->
                ChildLights(room.children.val[i], devices, lights)])
        ELSE <<>>]

IdleResolve ==
    /\ rs_pc = "idle"
    /\ fetches = <<>>
    /\ rooms = None
    /\ indexed_devices = None
    /\ indexed_lights = None
    /\ rs_result = None

StartResolve ==
    /\ rs_pc = "rooms"
    /\ fetches = <<>>
    /\ rooms = None
    /\ indexed_devices = None
    /\ indexed_lights = None
    /\ rs_result = None

\* let rooms = self.get_all_rooms().await?
FetchRooms ==
    /\ rs_pc = "rooms"
    /\ fetches' = Append(fetches, "room")
    /\ \E response \in FetchResponses(RoomLists) :
         LET got == get_all(response) IN
         IF got.ok
         THEN /\ rooms' = Some(got.val)
              /\ rs_pc' = "devices"
              /\ UNCHANGED rs_result
         ELSE /\ rs_result' = Some(got)
              /\ rs_pc' = "done"
              /\ UNCHANGED rooms
    /\ UNCHANGED <<indexed_devices, indexed_lights>>
    /\ UNCHANGED non_resolve_vars

\* Faulty variant of IndexDevices: after a failed fetch the call goes on.
IndexDevices_GoOnAfterFailure ==
    /\ rs_pc = "devices"
    /\ fetches' = Append(fetches, "device")
    /\ \E response \in FetchResponses(SeqUpTo(Devices, MaxDevices)) :
         LET got == get_all(response) IN
         IF got.ok
         THEN /\ indexed_devices' = Some(IndexById(got.val))
              /\ UNCHANGED rs_result
         ELSE /\ rs_result' = Some(got)
              /\ UNCHANGED indexed_devices
    /\ rs_pc' = "lights"
    /\ UNCHANGED <<rooms, indexed_lights>>
    /\ UNCHANGED non_resolve_vars

\* let indexed_devices = self.index_all_devices().await?
IndexDevices ==
    /\ rs_pc = "devices"
    /\ fetches' = Append(fetches, "device")
    /\ \E response \in FetchResponses(SeqUpTo(Devices, MaxDevices)) :
         LET got == get_all(response) IN
         IF got.ok
         THEN /\ indexed_devices' = Some(IndexById(got.val))
              /\ rs_pc' = "lights"
              /\ UNCHANGED rs_result
         ELSE /\ rs_result' = Some(got)
              /\ rs_pc' = "done"
              /\ UNCHANGED indexed_devices
    /\ UNCHANGED <<rooms, indexed_lights>>
    /\ UNCHANGED non_resolve_vars

\* let indexed_lights = self.index_all_lights().await?, and then the join.
IndexLightsAndResolve ==
    /\ rs_pc = "lights"
    /\ fetches' = Append(fetches, "light")
    /\ \E response \in FetchResponses(SeqUpTo(Lights, MaxLights)) :
         LET got == get_all(response) IN
         IF got.ok
         THEN /\ indexed_lights' = Some(IndexById(got.val))
              /\ rs_result' = Some(Ok([i \in 1..Len(rooms.val) |->
                    ResolveRoom(rooms.val[i], indexed_devices.val, IndexById(got.val))]))
         ELSE /\ rs_result' = Some(got)
              /\ UNCHANGED indexed_lights
    /\ rs_pc' = "done"
    /\ UNCHANGED <<rooms, indexed_devices>>
    /\ UNCHANGED non_resolve_vars

NextResolve ==
    \/ FetchRooms
    \/ IndexDevices
    \/ IndexLightsAndResolve

AllFetched == rooms.some /\ indexed_devices.some /\ indexed_lights.some

DeviceFetched(rid) == rid \in ResourceIds /\ indexed_devices.val[rid].some
LightFetched(rid) == rid \in ResourceIds /\ indexed_lights.val[rid].some

\* The lights reached through a list of services, in the order of the list.
RECURSIVE ReachedByServices(_)
ReachedByServices(services) ==
    IF services = <<>> THEN <<>>
    ELSE (IF Head(services).rtype = "light" /\ LightFetched(Head(services).rid)
          THEN <<indexed_lights.val[Head(services).rid].val>>
          ELSE <<>>) \o ReachedByServices(Tail(services))

\* The lights reached through a list of children, in the order of the list.
RECURSIVE ReachedByChildren(_)
ReachedByChildren(children) ==
    IF children = <<>> THEN <<>>
    ELSE (IF DeviceFetched(Head(children).rid)
             /\ indexed_devices.val[Head(children).rid].val.services.some
          THEN ReachedByServices(indexed_devices.val[Head(children).rid].val.services.val)
          ELSE <<>>) \o ReachedByChildren(Tail(children))

IsPrefix(s, t) == Len(s) <= Len(t) /\ \A i \in 1..Len(s) : s[i] = t[i]

\* C19 as stated: the collections are fetched in the order devices, lights,
\* rooms.
C19_DevicesLightsRooms == IsPrefix(fetches, <<"device", "light", "room">>)

\* C19, amended: the collections are fetched one at a time in the order rooms,
\* devices, lights. A fetch that fails ends the call with a failure: it was the
\* last fetch issued, what was fetched before it is all that was fetched, and
\* no list of resolved rooms is returned. The call succeeds only after the
\* three fetches have succeeded.
C19_RoomsDevicesLights ==
    /\ IsPrefix(fetches, <<"room", "device", "light">>)
    /\ rooms.some => Len(fetches) >= 1
    /\ indexed_devices.some => (Len(fetches) >= 2 /\ rooms.some)
    /\ indexed_lights.some => (Len(fetches) = 3 /\ indexed_devices.some)
    /\ rs_result.some =>
          /\ rs_pc = "done"
          /\ rs_result.val.ok <=> AllFetched
          /\ ~rs_result.val.ok =>
                /\ rs_result.val.err.kind \in {"Reqwest", "BridgeErrorV2"}
                /\ Len(fetches) = 1 => ~rooms.some
                /\ Len(fetches) = 2 => ~indexed_devices.some
                /\ Len(fetches) = 3 => ~indexed_lights.some

\* The fetch of the devices failed after that of the rooms: the call is over
\* with the failure and the lights were not asked for.
C19_Witness ==
    /\ rs_pc = "done"
    /\ fetches = <<"room", "device">>
    /\ rooms.some
    /\ ~indexed_devices.some
    /\ ~rs_result.val.ok

\* C18: the lights of a resolved room are those reached through the room's
\* children of rtype device, taken in order, and the light services of their
\* devices: a child of another rtype gives no light.
C18_OnlyDeviceChildren ==
    (rs_pc = "done" /\ AllFetched) =>
        \A r \in 1..Len(rooms.val) :
            rs_result.val.val[r].children =
                IF rooms.val[r].children.some
                THEN ReachedByChildren(
                        SelectSeq(rooms.val[r].children.val, LAMBDA c : c.rtype = "device"))
                ELSE <<>>

----------------------------------------------------------------------------
(* The event feed: src/src/bridge.rs *)

\* Most events in the body of a message, and most resources in an event.
MaxEvents == 2
MaxData == 1
\* Most items taken from the event source.
MaxPolls == 3

\* The values of "type" that EventType names (rename_all = "lowercase").
EventTypeNames ==
    [update |-> "Update", add |-> "Add", delete |-> "Delete", error |-> "Error",
     unknown |-> "Unknown"]

\* The values of "type" that EventData names (rename_all = "snake_case")
\* besides Unknown, which is #[serde(other)].
ResourceTypeNames ==
    {"bridge_home", "device", "grouped_light", "light", "room", "scene", "smart_scene",
     "zone"}

\* "type" values on the wire: those of EventType and one it does not name.
WireEventTypes == {"update", "add", "delete", "error", "unknown", "reset"}

\* Resources on the wire: a light, a light without its id, and a resource of
\* a type EventData does not name.
WireResources ==
    {[type |-> "light", id |-> Some(1)], [type |-> "light", id |-> None],
     [type |-> "zigbee_connectivity", id |-> Some(2)]}

WireEvents(nd) ==
    {[type |-> t, data |-> d] : t \in WireEventTypes, d \in SeqUpTo(WireResources, nd)}

\* The data of a message: no JSON, JSON that is no array, or an array of at
\* most ne events of at most nd resources each.
MessageData(ne, nd) ==
    {[json |-> "none"], [json |-> "object"]}
        \cup {[json |-> "array", events |-> es] : es \in SeqUpTo(WireEvents(nd), ne)}

\* EventData: Deserialize, internally tagged by "type".
DeserializeEventData(r) ==
    IF r.type \in ResourceTypeNames
    THEN IF r.id.some
         THEN Ok([variant |-> r.type, id |-> r.id.val])
         ELSE Err("missing field id")
    ELSE Ok([variant |-> "Unknown"])

\* EventType: Deserialize.
DeserializeEventType(t) ==
    IF t \in DOMAIN EventTypeNames
    THEN Ok(EventTypeNames[t])
    ELSE Err("unknown variant")

\* Event: Deserialize.
DeserializeEvent(e) ==
    LET data == [i \in 1..Len(e.data) |-> DeserializeEventData(e.data[i])]
        type == DeserializeEventType(e.type)
    IN IF \E i \in 1..Len(data) : ~data[i].ok
       THEN Err("missing field id")
       ELSE IF ~type.ok THEN type
       ELSE Ok([data |-> [i \in 1..Len(data) |-> data[i].val], type |-> type.val])

\* serde_json::from_str::<Vec<Event>>
DeserializeEvents(d) ==
    IF d.json = "none" THEN Err("expected value")
    ELSE IF d.json # "array" THEN Err("invalid type: map, expected a sequence")
    ELSE LET events == [i \in 1..Len(d.events) |-> DeserializeEvent(d.events[i])] IN
         IF \E i \in 1..Len(events) : ~events[i].ok
         THEN events[CHOOSE i \in 1..Len(events) :
                        ~events[i].ok /\ \A j \in 1..(i - 1) : events[j].ok]
         ELSE Ok([i \in 1..Len(events) |-> events[i].val])

HueEvent_Events(events) == [variant |-> "Events", events |-> events]
HueEvent_Error(text) == [variant |-> "Error", text |-> text]

\* The data of the messages given to the feed: no JSON, no event, an update
\* event, and an event of a type EventType does not name.
FeedData ==
    {[json |-> "none"],
     [json |-> "array", events |-> <<>>],
     [json |-> "array", events |-> <<[type |-> "update", data |-> <<>>]>>],
     [json |-> "array", events |-> <<[type |-> "reset", data |-> <<>>]>>]}

\* The closure given to filter_map.
EventsClosure(event) ==
    CASE event.t = "message" ->
           LET decoded == DeserializeEvents(event.data) IN
           IF decoded.ok THEN Some(HueEvent_Events(decoded.val))
           ELSE Some(HueEvent_Error(decoded.err))
      [] event.t = "open" -> None
      [] OTHER -> Some(HueEvent_Error(event.text))

IdleFeed ==
    /\ feed_pc = "idle"
    /\ consumed = <<>>
    /\ yielded = <<>>

\* Bridge::events has returned the stream.
StartFeed ==
    /\ feed_pc = "open"
    /\ consumed = <<>>
    /\ yielded = <<>>

Yield(event) ==
    yielded' = IF EventsClosure(event).some
               THEN Append(yielded, EventsClosure(event).val)
               ELSE yielded

\* The event source produces the open signal.
PollOpen ==
    /\ feed_pc = "open"
    /\ Len(consumed) < MaxPolls
    /\ consumed' = Append(consumed, [t |-> "open"])
    /\ Yield([t |-> "open"])
    /\ UNCHANGED feed_pc
    /\ UNCHANGED non_feed_vars

\* Faulty variant of PollMessage: a message that does not decode ends the feed.
PollMessage_EndOnDecodeError ==
    /\ feed_pc = "open"
    /\ Len(consumed) < MaxPolls
    /\ \E d \in FeedData :
         /\ consumed' = Append(consumed, [t |-> "message", data |-> d])
         /\ Yield([t |-> "message", data |-> d])
         /\ feed_pc' = IF DeserializeEvents(d).ok THEN "open" ELSE "closed"
    /\ UNCHANGED non_feed_vars

\* The event source produces a message.
PollMessage ==
    /\ feed_pc = "open"
    /\ Len(consumed) < MaxPolls
    /\ \E d \in FeedData :
         /\ consumed' = Append(consumed, [t |-> "message", data |-> d])
         /\ Yield([t |-> "message", data |-> d])
    /\ UNCHANGED feed_pc
    /\ UNCHANGED non_feed_vars

\* Faulty variant of PollError: the event source connects again after an
\* error, as it would with a retry policy other than Never.
PollError_Reconnect ==
    /\ feed_pc = "open"
    /\ Len(consumed) < MaxPolls
    /\ consumed' = Append(consumed, [t |-> "error", text |-> "StreamEnded"])
    /\ Yield([t |-> "error", text |-> "StreamEnded"])
    /\ UNCHANGED feed_pc
    /\ UNCHANGED non_feed_vars

\* The event source produces an error; with the retry policy Never it then ends.
PollError ==
    /\ feed_pc = "open"
    /\ Len(consumed) < MaxPolls
    /\ consumed' = Append(consumed, [t |-> "error", text |-> "StreamEnded"])
    /\ Yield([t |-> "error", text |-> "StreamEnded"])
    /\ feed_pc' = "closed"
    /\ UNCHANGED non_feed_vars

NextFeed ==
    \/ PollOpen
    \/ PollMessage
    \/ PollError

IdleDecode ==
    /\ dec_pc = "idle"
    /\ msg_data = None
    /\ hue_event = None

\* The event source has produced a message with any data.
StartDecode ==
    /\ dec_pc = "message"
    /\ \E d \in MessageData(MaxEvents, MaxData) : msg_data = Some(d)
    /\ hue_event = None

\* The closure is applied to the message.
DecodeMessage ==
    /\ dec_pc = "message"
    /\ hue_event' = EventsClosure([t |-> "message", data |-> msg_data.val])
    /\ dec_pc' = "done"
    /\ UNCHANGED msg_data
    /\ UNCHANGED non_decode_vars

NextDecode == DecodeMessage

\* The items consumed that are not the open signal.
NotOpen(items) == SelectSeq(items, LAMBDA item : item.t # "open")

Undecodable(item) ==
    /\ item.t = "message"
    /\ \/ item.data.json # "array"
       \/ \E i \in 1..Len(item.data.events) :
            item.data.events[i].type \notin {"update", "add", "delete", "error", "unknown"}

\* C9: the feed yields one event for every item consumed that is not the open
\* signal, in the order of arrival, and none for the open signal; a message
\* whose data does not decode gives HueEvent::Error, a message whose data
\* decodes gives its events; and after a message, undecodable or not, the feed
\* is still open for the next item.
C9_FeedSurvivesBadMessage ==
    feed_pc # "idle" =>
        /\ Len(yielded) = Len(NotOpen(consumed))
        /\ \A i \in 1..Len(yielded) :
             LET item == NotOpen(consumed)[i] IN
             /\ Undecodable(item) => yielded[i].variant = "Error"
             /\ (item.t = "message" /\ ~Undecodable(item)) =>
                   /\ yielded[i].variant = "Events"
                   /\ Len(yielded[i].events) = Len(item.data.events)
        /\ (consumed # <<>> /\ consumed[Len(consumed)].t # "error") => feed_pc = "open"

\* A message that is no JSON, the open signal, and a message with one update
\* event: an error event and then the batch have been yielded.
C9_Witness ==
    /\ feed_pc = "open"
    /\ Len(consumed) = 3
    /\ consumed[1] = [t |-> "message", data |-> [json |-> "none"]]
    /\ consumed[2].t = "open"
    /\ consumed[3].t = "message"
    /\ Len(yielded) = 2
    /\ yielded[1].variant = "Error"
    /\ yielded[2] = HueEvent_Events(<<[data |-> <<>>, type |-> "Update"]>>)

\* The places of the errors of the event source among the items consumed.
StreamErrors == {i \in 1..Len(consumed) : consumed[i].t = "error"}

\* C21: an error of the event source is the last item the feed consumes: the
\* feed yields one HueEvent::Error for it, as its last event, and is closed;
\* a closed feed stays closed, consumes nothing and yields nothing more.
C21_ErrorEndsFeed ==
    /\ [](/\ Cardinality(StreamErrors) <= 1
          /\ StreamErrors # {} <=> feed_pc = "closed"
          /\ StreamErrors # {} =>
                /\ StreamErrors = {Len(consumed)}
                /\ yielded # <<>>
                /\ yielded[Len(yielded)] = HueEvent_Error(consumed[Len(consumed)].text)
                /\ Len(yielded) = Len(NotOpen(consumed)))
    /\ [][feed_pc = "closed" =>
            (feed_pc' = "closed" /\ consumed' = consumed /\ yielded' = yielded)]_vars

\* A batch was yielded, then the connection dropped: the error event is the
\* last one and the feed is closed.
C21_Witness ==
    /\ feed_pc = "closed"
    /\ Len(consumed) = 2
    /\ consumed[1].t = "message"
    /\ consumed[2].t = "error"
    /\ Len(yielded) = 2
    /\ yielded[1].variant = "Events"
    /\ yielded[2] = HueEvent_Error("StreamEnded")

WellFormed(e) == \A j \in 1..Len(e.data) : e.data[j].id.some

KnownEvent(e) ==
    /\ WellFormed(e)
    /\ e.type \in {"update", "add", "delete", "error"}
    /\ \A j \in 1..Len(e.data) : e.data[j].type \in ResourceTypeNames

\* C10: the data of a message that holds one known event and then one event of
\* an unknown type, all fields being there, decodes to a batch of two events,
\* the second tagged Unknown: the unknown type does not make the batch fail.
C10_UnknownTypeTolerated ==
    (dec_pc = "done" /\ msg_data.val.json = "array") =>
        LET es == msg_data.val.events IN
        (/\ Len(es) = 2
         /\ KnownEvent(es[1])
         /\ WellFormed(es[2])
         /\ es[2].type \notin {"update", "add", "delete", "error"}) =>
            /\ hue_event.val.variant = "Events"
            /\ Len(hue_event.val.events) = 2
            /\ hue_event.val.events[2].type = "Unknown"

----------------------------------------------------------------------------
(* Light commands: src/src/bridge.rs *)

\* Most builder calls on one command.
MaxCalls == 3

CommandLightFields == {"on", "dimming", "color_temperature", "color", "dynamics"}

\* The arguments given to the builders.
Brightnesses == {0, 50}
Mireks == {0, 153}
XYs == {[x |-> 0, y |-> 0]}
Durations == {0, 400}

\* CommandLight::default()
CommandLight_default == [f \in CommandLightFields |-> None]

\* CommandLightDynamics::default()
CommandLightDynamics_default == [duration |-> None, speed |-> None]

\* Self { <field>: Some(value), ..self }
WithField(self, field, value) == [self EXCEPT ![field] = Some(value)]

\* The field each builder names.
BuilderField ==
    [on |-> "on", off |-> "on", with_brightness |-> "dimming",
     with_mirek |-> "color_temperature", with_xy |-> "color",
     with_transition_time |-> "dynamics"]

\* CommandLightDynamics: Serialize (skip_serializing_if on both fields).
SerializeDynamics(d) ==
    [k \in {k \in {"duration", "speed"} : d[k].some} |-> d[k].val]

\* CommandLight: Serialize (skip_serializing_if on every field).
SerializeCommandLight(c) ==
    [f \in {f \in CommandLightFields : c[f].some} |->
        IF f = "dynamics" THEN SerializeDynamics(c[f].val) ELSE c[f].val]

IdleCommand ==
    /\ cmd_pc = "idle"
    /\ command = None
    /\ calls = <<>>
    /\ payload = None

StartCommand ==
    /\ cmd_pc = "build"
    /\ command = Some(CommandLight_default)
    /\ calls = <<>>
    /\ payload = None

on ==
    /\ cmd_pc = "build"
    /\ Len(calls) < MaxCalls
    /\ command' = Some(WithField(command.val, "on", [on |-> TRUE]))
    /\ calls' = Append(calls, "on")
    /\ UNCHANGED <<cmd_pc, payload>>
    /\ UNCHANGED non_command_vars

\* Faulty variant of off: the other fields are taken from the default.
off_FromDefault ==
    /\ cmd_pc = "build"
    /\ Len(calls) < MaxCalls
    /\ command' = Some(WithField(CommandLight_default, "on", [on |-> FALSE]))
    /\ calls' = Append(calls, "off")
    /\ UNCHANGED <<cmd_pc, payload>>
    /\ UNCHANGED non_command_vars

off ==
    /\ cmd_pc = "build"
    /\ Len(calls) < MaxCalls
    /\ command' = Some(WithField(command.val, "on", [on |-> FALSE]))
    /\ calls' = Append(calls, "off")
    /\ UNCHANGED <<cmd_pc, payload>>
    /\ UNCHANGED non_command_vars

with_brightness ==
    /\ cmd_pc = "build"
    /\ Len(calls) < MaxCalls
    /\ \E brightness \in Brightnesses :
         command' = Some(WithField(command.val, "dimming", [brightness |-> brightness]))
    /\ calls' = Append(calls, "with_brightness")
    /\ UNCHANGED <<cmd_pc, payload>>
    /\ UNCHANGED non_command_vars

with_mirek ==
    /\ cmd_pc = "build"
    /\ Len(calls) < MaxCalls
    /\ \E mirek \in Mireks :
         command' = Some(WithField(command.val, "color_temperature", [mirek |-> mirek]))
    /\ calls' = Append(calls, "with_mirek")
    /\ UNCHANGED <<cmd_pc, payload>>
    /\ UNCHANGED non_command_vars

with_xy ==
    /\ cmd_pc = "build"
    /\ Len(calls) < MaxCalls
    /\ \E xy \in XYs :
         command' = Some(WithField(command.val, "color", [xy |-> xy]))
    /\ calls' = Append(calls, "with_xy")
    /\ UNCHANGED <<cmd_pc, payload>>
    /\ UNCHANGED non_command_vars

with_transition_time ==
    /\ cmd_pc = "build"
    /\ Len(calls) < MaxCalls
    /\ \E ms \in Durations :
         command' = Some(WithField(command.val, "dynamics", [CommandLightDynamics_default EXCEPT !.duration = Some(ms)]))
    /\ calls' = Append(calls, "with_transition_time")
    /\ UNCHANGED <<cmd_pc, payload>>
    /\ UNCHANGED non_command_vars

\* The command is serialized for the request body.
SerializeCommand ==
    /\ cmd_pc = "build"
    /\ payload' = Some(SerializeCommandLight(command.val))
    /\ cmd_pc' = "serialized"
    /\ UNCHANGED <<command, calls>>
    /\ UNCHANGED non_command_vars

NextCommand ==
    \/ on
    \/ off
    \/ with_brightness
    \/ with_mirek
    \/ with_xy
    \/ with_transition_time
    \/ SerializeCommand

\* The fields named by the builders called.
FieldsSet == {BuilderField[calls[i]] : i \in 1..Len(calls)}

\* C11: the serialized command has exactly the top-level fields that the
\* builders called have set; a command built by on alone has one field; and
\* a builder call leaves every field but its own as it was.
C11_SparsePayload ==
    /\ [](cmd_pc = "serialized" =>
            /\ DOMAIN payload.val = FieldsSet
            /\ calls = <<"on">> => payload.val = [f \in {"on"} |-> [on |-> TRUE]])
    /\ [][calls' # calls =>
            \A f \in CommandLightFields \ {BuilderField[calls'[Len(calls')]]} :
                command'.val[f] = command.val[f]]_vars

\* A brightness of zero and then off: both fields are on the wire, the
\* brightness as zero.
C11_Witness ==
    /\ cmd_pc = "serialized"
    /\ calls = <<"with_brightness", "off">>
    /\ DOMAIN payload.val = {"on", "dimming"}
    /\ payload.val["dimming"] = [brightness |-> 0]
    /\ payload.val["on"] = [on |-> FALSE]

----------------------------------------------------------------------------
(* Fetching a collection: src/src/bridge.rs *)

\* Most elements in the data of a fetched collection.
MaxFetched == 3

\* The elements of a collection: an id and what else the element holds, by
\* which elements of one id are told apart.
FetchedElements == {[id |-> id, name |-> n] : id \in ResourceIds, n \in {"a", "b"}}

IdleFetch ==
    /\ ft_pc = "idle"
    /\ ft_response = None
    /\ ft_result = None

StartFetch ==
    /\ ft_pc = "fetch"
    /\ \E response \in FetchResponses(SeqUpTo(FetchedElements, MaxFetched)) :
         ft_response = Some(response)
    /\ ft_result = None

\* get_all_devices and the five functions like it.
GetAll ==
    /\ ft_pc = "fetch"
    /\ ft_result' = Some(get_all(ft_response.val))
    /\ ft_pc' = "done"
    /\ UNCHANGED ft_response
    /\ UNCHANGED non_fetch_vars

NextFetch == GetAll

\* The elements of a list that have an id, in the order of the list.
WithId(list, id) == SelectSeq(list, LAMBDA x : x.id = id)

\* C12: a fetch that succeeds returns the elements of the envelope's data, as
\* many as there were, in ascending order of id, the elements of one id being
\* the same and in the same order as in the data.
C12_SortedPermutation ==
    (ft_pc = "done" /\ ft_result.val.ok) =>
        LET data == ft_response.val.body.data
            got == ft_result.val.val
        IN /\ Len(got) = Len(data)
           /\ \A i \in 1..Len(got), j \in 1..Len(got) : i < j => got[i].id <= got[j].id
           /\ \A id \in ResourceIds : WithId(got, id) = WithId(data, id)

\* Data out of order with two elements of id 1: they come first, b before a
\* as in the data.
C12_Witness ==
    /\ ft_pc = "done"
    /\ ft_response.val.t = "body"
    /\ ft_response.val.body.data =
          <<[id |-> 2, name |-> "a"], [id |-> 1, name |-> "b"], [id |-> 1, name |-> "a"]>>
    /\ ft_result.val =
          Ok(<<[id |-> 1, name |-> "b"], [id |-> 1, name |-> "a"], [id |-> 2, name |-> "a"]>>)

----------------------------------------------------------------------------
(* Bridge handles: src/src/bridge.rs *)

\* Most operations applied to one handle.
MaxOps == 4

\* The application keys given by the caller or returned by the bridge.
ApplicationKeys == {"key1", "key2"}

\* create_reqwest_client: the client's hue-application-key default header.
create_reqwest_client(key) == key

\* What the POST to /api of register_application yields.
RegisterOutcomes ==
    {Err([kind |-> "BridgeError", code |-> 101, msg |-> "link button not pressed"])}
        \cup {Ok([success |-> [username |-> k]]) : k \in ApplicationKeys}

IdleHandle ==
    /\ hd_kind = "idle"
    /\ application_key = None
    /\ client_key = None
    /\ hd_ops = <<>>
    /\ hd_request = None

\* Bridge::for_ip (and discover, discover_mdns): an UnauthBridge.
StartHandle ==
    /\ hd_kind = "unauth"
    /\ application_key = None
    /\ client_key = create_reqwest_client(None)
    /\ hd_ops = <<>>
    /\ hd_request = None

\* UnauthBridge::with_user
with_user ==
    /\ hd_kind = "unauth"
    /\ Len(hd_ops) < MaxOps
    /\ \E username \in ApplicationKeys :
         /\ client_key' = create_reqwest_client(Some(username))
         /\ application_key' = Some(username)
    /\ hd_kind' = "auth"
    /\ hd_ops' = Append(hd_ops, "with_user")
    /\ hd_request' = None
    /\ UNCHANGED non_handle_vars

\* UnauthBridge::register_application
UnauthRegisterApplication ==
    /\ hd_kind = "unauth"
    /\ Len(hd_ops) < MaxOps
    /\ \E resp \in RegisterOutcomes :
         IF resp.ok
         THEN /\ client_key' = create_reqwest_client(Some(resp.val.success.username))
              /\ application_key' = Some(resp.val.success.username)
              /\ hd_kind' = "auth"
         ELSE /\ hd_kind' = "failed"
              /\ UNCHANGED <<client_key, application_key>>
    /\ hd_ops' = Append(hd_ops, "register_application")
    /\ hd_request' = None
    /\ UNCHANGED non_handle_vars

\* Bridge::with_application_key: the client is taken over as it is.
with_application_key ==
    /\ hd_kind = "auth"
    /\ Len(hd_ops) < MaxOps
    /\ \E appplication_key \in ApplicationKeys :
         application_key' = Some(appplication_key)
    /\ hd_ops' = Append(hd_ops, "with_application_key")
    /\ hd_request' = None
    /\ UNCHANGED <<hd_kind, client_key>>
    /\ UNCHANGED non_handle_vars

\* Bridge::register_application: the client is taken over as it is.
register_application ==
    /\ hd_kind = "auth"
    /\ Len(hd_ops) < MaxOps
    /\ \E resp \in RegisterOutcomes :
         IF resp.ok
         THEN /\ application_key' = Some(resp.val.success.username)
              /\ UNCHANGED hd_kind
         ELSE /\ hd_kind' = "failed"
              /\ UNCHANGED application_key
    /\ hd_ops' = Append(hd_ops, "register_application")
    /\ hd_request' = None
    /\ UNCHANGED client_key
    /\ UNCHANGED non_handle_vars

\* A request is sent through the Bridge (get_all_lights and the like): it
\* carries the default headers of the client.
SendRequest ==
    /\ hd_kind = "auth"
    /\ Len(hd_ops) < MaxOps
    /\ hd_request' = Some(client_key)
    /\ hd_ops' = Append(hd_ops, "request")
    /\ UNCHANGED <<hd_kind, application_key, client_key>>
    /\ UNCHANGED non_handle_vars

NextHandle ==
    \/ with_user
    \/ UnauthRegisterApplication
    \/ with_application_key
    \/ register_application
    \/ SendRequest

\* C15: a request sent through a Bridge carries as its hue-application-key
\* header the application_key of that Bridge.
C15_HeaderIsApplicationKey ==
    (hd_kind = "auth" /\ hd_request.some) => hd_request.val = application_key

----------------------------------------------------------------------------
(* Resolving rooms and zones, whole calls: src/src/bridge.rs *)

\* Most rooms, or zones, in a response of the bridge.
MaxGroups == 2

\* Rooms and zones: without children, with none, with one child.
JoinGroups ==
    {[id |-> id, children |-> cs] :
        id \in ResourceIds,
        cs \in {None, Some(<<>>), Some(<<ResourceIdentifier(1, "device")>>),
                Some(<<ResourceIdentifier(2, "light")>>)}}

\* The devices and the lights the bridge may hold.
JoinDeviceLists ==
    {<<>>,
     <<[id |-> 1,
        services |-> Some(<<ResourceIdentifier(1, "light"), ResourceIdentifier(2, "light")>>)]>>}

JoinLightLists == {<<>>, <<[id |-> 1]>>, <<[id |-> 2], [id |-> 1]>>}

\* The closure given to map in resolve_all_zones: the ResolvedZone of a zone.
ResolveZone(zone, lights) ==
    [id |-> zone.id,
     children |->
        IF zone.children.some
        THEN Flatten([i \in 1..Len(zone.children.val) |->
                LET light == MapGet(lights, zone.children.val[i].rid) IN
                IF light.some THEN <<light.val>> ELSE <<>>])
        ELSE <<>>]

\* Faulty variant of resolve_all_rooms: rooms without lights are left out.
resolve_all_rooms_DropEmpty(rooms_response, devices_response, lights_response) ==
    LET got_rooms == get_all(rooms_response)
        got_devices == get_all(devices_response)
        got_lights == get_all(lights_response)
    IN IF ~got_rooms.ok THEN got_rooms
       ELSE IF ~got_devices.ok THEN got_devices
       ELSE IF ~got_lights.ok THEN got_lights
       ELSE Ok(SelectSeq(
                [i \in 1..Len(got_rooms.val) |->
                    ResolveRoom(got_rooms.val[i], IndexById(got_devices.val),
                                IndexById(got_lights.val))],
                LAMBDA r : r.children # <<>>))

\* resolve_all_rooms, given what its three GETs yield.
resolve_all_rooms(rooms_response, devices_response, lights_response) ==
    LET got_rooms == get_all(rooms_response)
        got_devices == get_all(devices_response)
        got_lights == get_all(lights_response)
    IN IF ~got_rooms.ok THEN got_rooms
       ELSE IF ~got_devices.ok THEN got_devices
       ELSE IF ~got_lights.ok THEN got_lights
       ELSE Ok([i \in 1..Len(got_rooms.val) |->
                    ResolveRoom(got_rooms.val[i], IndexById(got_devices.val),
                                IndexById(got_lights.val))])

\* resolve_all_zones, given what its two GETs yield.
resolve_all_zones(zones_response, lights_response) ==
    LET got_zones == get_all(zones_response)
        got_lights == get_all(lights_response)
    IN IF ~got_zones.ok THEN got_zones
       ELSE IF ~got_lights.ok THEN got_lights
       ELSE Ok([i \in 1..Len(got_zones.val) |->
                    ResolveZone(got_zones.val[i], IndexById(got_lights.val))])

IdleJoin ==
    /\ jn_pc = "idle"
    /\ jn_groups = None
    /\ jn_devices = None
    /\ jn_lights = None
    /\ jn_result = None

\* The bridge is in some state when either function is called.
StartJoin ==
    /\ \E groups \in FetchResponses(SeqUpTo(JoinGroups, MaxGroups)) :
         jn_groups = Some(groups)
    /\ \E lights \in FetchResponses(JoinLightLists) : jn_lights = Some(lights)
    /\ \/ /\ jn_pc = "rooms"
          /\ \E devices \in FetchResponses(JoinDeviceLists) : jn_devices = Some(devices)
       \/ /\ jn_pc = "zones"
          /\ jn_devices = None
    /\ jn_result = None

ResolveAllRooms ==
    /\ jn_pc = "rooms"
    /\ jn_result' = Some(resolve_all_rooms(jn_groups.val, jn_devices.val, jn_lights.val))
    /\ jn_pc' = "done"
    /\ UNCHANGED <<jn_groups, jn_devices, jn_lights>>
    /\ UNCHANGED non_join_vars

ResolveAllZones ==
    /\ jn_pc = "zones"
    /\ jn_result' = Some(resolve_all_zones(jn_groups.val, jn_lights.val))
    /\ jn_pc' = "done"
    /\ UNCHANGED <<jn_groups, jn_devices, jn_lights>>
    /\ UNCHANGED non_join_vars

NextJoin ==
    \/ ResolveAllRooms
    \/ ResolveAllZones

\* The ids in a successful response.
FetchedIds(response) ==
    {response.val.body.data[i].id : i \in 1..Len(response.val.body.data)}

\* A child of a room names a fetched device; a child of a zone, a fetched light.
NamesFetched(child) ==
    IF jn_devices.some
    THEN child.rid \in FetchedIds(jn_devices)
    ELSE child.rid \in FetchedIds(jn_lights)

\* C20: a call that succeeds returns as many entries as rooms, or zones, were
\* fetched, in ascending order of id, the i-th carrying the id of the i-th
\* fetched room or zone in the sorted order; an entry whose room or zone has
\* no children, or only children that name nothing fetched, is there with an
\* empty list of children.
C20_OneEntryPerGroup ==
    (jn_pc = "done" /\ jn_result.val.ok) =>
        LET data == jn_groups.val.body.data
            sorted == SortById(data)
            got == jn_result.val.val
        IN /\ Len(got) = Len(data)
           /\ \A i \in 1..Len(got), j \in 1..Len(got) : i < j => got[i].id <= got[j].id
           /\ \A i \in 1..Len(got) :
                /\ got[i].id = sorted[i].id
                /\ (\/ ~sorted[i].children.some
                    \/ \A c \in 1..Len(sorted[i].children.val) :
                          ~NamesFetched(sorted[i].children.val[c]))
                      => got[i].children = <<>>

\* Room 2 without children and room 1 with a child naming a device that was
\* not fetched: two entries, of room 1 and of room 2, both without lights.
C20_Witness ==
    /\ jn_pc = "done"
    /\ jn_devices.some
    /\ jn_devices.val.t = "body"
    /\ jn_devices.val.body.data = <<>>
    /\ jn_groups.val.t = "body"
    /\ jn_groups.val.body.data =
          <<[id |-> 2, children |-> None],
            [id |-> 1, children |-> Some(<<ResourceIdentifier(1, "device")>>)]>>
    /\ jn_result.val = Ok(<<[id |-> 1, children |-> <<>>], [id |-> 2, children |-> <<>>]>>)

----------------------------------------------------------------------------
(* Specifications: one component runs, the others stay idle. *)

InitDisco ==
    /\ StartDisco
    /\ IdleMdns
    /\ IdleValidate
    /\ IdleEnvelope
    /\ IdleResolve
    /\ IdleFeed
    /\ IdleDecode
    /\ IdleCommand
    /\ IdleFetch
    /\ IdleHandle
    /\ IdleJoin

SpecDisco == InitDisco /\ [][NextDisco]_vars

InitMdns ==
    /\ IdleDisco
    /\ StartMdns
    /\ IdleValidate
    /\ IdleEnvelope
    /\ IdleResolve
    /\ IdleFeed
    /\ IdleDecode
    /\ IdleCommand
    /\ IdleFetch
    /\ IdleHandle
    /\ IdleJoin

SpecMdns == InitMdns /\ [][NextMdns]_vars

\* Time does pass, and the timer of timeout_at fires once it is due.
FairSpecMdns == SpecMdns /\ WF_vars(Tick) /\ WF_vars(RecvTimeout)

InitValidate ==
    /\ IdleDisco
    /\ IdleMdns
    /\ StartValidate
    /\ IdleEnvelope
    /\ IdleResolve
    /\ IdleFeed
    /\ IdleDecode
    /\ IdleCommand
    /\ IdleFetch
    /\ IdleHandle
    /\ IdleJoin

SpecValidate == InitValidate /\ [][NextValidate]_vars

InitEnvelope ==
    /\ IdleDisco
    /\ IdleMdns
    /\ IdleValidate
    /\ StartEnvelope
    /\ IdleResolve
    /\ IdleFeed
    /\ IdleDecode
    /\ IdleCommand
    /\ IdleFetch
    /\ IdleHandle
    /\ IdleJoin

SpecEnvelope == InitEnvelope /\ [][NextEnvelope]_vars

InitResolve ==
    /\ IdleDisco
    /\ IdleMdns
    /\ IdleValidate
    /\ IdleEnvelope
    /\ StartResolve
    /\ IdleFeed
    /\ IdleDecode
    /\ IdleCommand
    /\ IdleFetch
    /\ IdleHandle
    /\ IdleJoin

SpecResolve == InitResolve /\ [][NextResolve]_vars

InitFeed ==
    /\ IdleDisco
    /\ IdleMdns
    /\ IdleValidate
    /\ IdleEnvelope
    /\ IdleResolve
    /\ StartFeed
    /\ IdleDecode
    /\ IdleCommand
    /\ IdleFetch
    /\ IdleHandle
    /\ IdleJoin

SpecFeed == InitFeed /\ [][NextFeed]_vars

InitDecode ==
    /\ IdleDisco
    /\ IdleMdns
    /\ IdleValidate
    /\ IdleEnvelope
    /\ IdleResolve
    /\ IdleFeed
    /\ StartDecode
    /\ IdleCommand
    /\ IdleFetch
    /\ IdleHandle
    /\ IdleJoin

SpecDecode == InitDecode /\ [][NextDecode]_vars

InitCommand ==
    /\ IdleDisco
    /\ IdleMdns
    /\ IdleValidate
    /\ IdleEnvelope
    /\ IdleResolve
    /\ IdleFeed
    /\ IdleDecode
    /\ StartCommand
    /\ IdleFetch
    /\ IdleHandle
    /\ IdleJoin

SpecCommand == InitCommand /\ [][NextCommand]_vars

InitFetch ==
    /\ IdleDisco
    /\ IdleMdns
    /\ IdleValidate
    /\ IdleEnvelope
    /\ IdleResolve
    /\ IdleFeed
    /\ IdleDecode
    /\ IdleCommand
    /\ StartFetch
    /\ IdleHandle
    /\ IdleJoin

SpecFetch == InitFetch /\ [][NextFetch]_vars

InitHandle ==
    /\ IdleDisco
    /\ IdleMdns
    /\ IdleValidate
    /\ IdleEnvelope
    /\ IdleResolve
    /\ IdleFeed
    /\ IdleDecode
    /\ IdleCommand
    /\ IdleFetch
    /\ StartHandle
    /\ IdleJoin

SpecHandle == InitHandle /\ [][NextHandle]_vars

InitJoin ==
    /\ IdleDisco
    /\ IdleMdns
    /\ IdleValidate
    /\ IdleEnvelope
    /\ IdleResolve
    /\ IdleFeed
    /\ IdleDecode
    /\ IdleCommand
    /\ IdleFetch
    /\ IdleHandle
    /\ StartJoin

SpecJoin == InitJoin /\ [][NextJoin]_vars

\* discover_mdns_sd and validate_response, each on its own inputs.
InitMdnsValidate == InitMdns \/ InitValidate

NextMdnsValidate == NextMdns \/ NextValidate

SpecMdnsValidate == InitMdnsValidate /\ [][NextMdnsValidate]_vars

Init ==
    \/ InitDisco
    \/ InitMdns
    \/ InitValidate
    \/ InitEnvelope
    \/ InitResolve
    \/ InitFeed
    \/ InitDecode
    \/ InitCommand
    \/ InitFetch
    \/ InitHandle
    \/ InitJoin

Next ==
    \/ NextDisco
    \/ NextMdns
    \/ NextValidate
    \/ NextEnvelope
    \/ NextResolve
    \/ NextFeed
    \/ NextDecode
    \/ NextCommand
    \/ NextFetch
    \/ NextHandle
    \/ NextJoin

Spec == Init /\ [][Next]_vars

====
